---------------------------- MODULE Spec2Model ----------------------------
(***************************************************************************)
(* Model of the pulse-detection engine of PulseAnalyzerApp                 *)
(* (src/pulse_analyzer_app.py): the three similarity scorers, the peak     *)
(* extraction done by scipy.signal.find_peaks, and run_analysis with its   *)
(* validation, cancellation polls and result assembly.                     *)
(*                                                                         *)
(* Numbers.  Samples are integers.  Every score the scorers produce from   *)
(* integer samples is either  sgn(c) * sqrt(c^2 / (a*b))  (NCC, cosine) or *)
(* 1 - sqrt(d^2 / H^2)  (DTW), so a score is kept exactly as a tagged      *)
(* fraction instead of a rounded float:                                    *)
(*    [kind |-> "sq",   n, d]   stands for  sgn(n) * sqrt(|n| / d)         *)
(*    [kind |-> "omsq", n, d]   stands for  1 - sqrt(n / d),  0 <= n <= d  *)
(* Comparisons between scores and against the threshold are the exact      *)
(* comparisons of these reals.  Floating-point round-off is not modelled.  *)
(* Offsets are 0-based as in the code; TLA+ sequences are 1-based, so the  *)
(* score at offset i is scores[i + 1].                                     *)
(***************************************************************************)
EXTENDS Integers, Sequences, FiniteSets, TLC

(***************************************************************************)
(* Bounds of the model.                                                    *)
(***************************************************************************)
\* main session (Spec): the lengths of the loaded signals
MaxRefLen == 2
MaxReadLen == 5
\* pure scorer calls (SpecScore)
ScoreMaxSample == 2
ScoreMaxTemplateLen == 2
ScoreMaxSignalLen == 4
\* embedding round trip (SpecEmbed)
EmbedMaxSample == 3
EmbedMaxRefLen == 3
EmbedMaxReadLen == 7
\* peak extraction on arbitrary score sequences (SpecPeaks)
PeakMaxLevel == 2
PeakMaxScores == 7
PeakMaxTemplateLen == 4

\* the width of the significand of the floating-point arithmetic (float64
\* has 53), and the signals it is run on
FloatBits == 7
FloatMaxSample == 2
FloatMaxLen == 3
\* repeated runs (SpecRepeat): the signals, and the seconds that pass
RepeatMaxSample == 1
RepeatMaxRefLen == 2
RepeatMaxReadLen == 4
MaxClock == 1
\* DTW runs in which a window may fail (SpecDtw)
DtwMaxSample == 1
DtwMaxRefLen == 2
DtwMaxReadLen == 4
\* DTW runs on signals of about two hundred windows (SpecDtwLong): the
\* template lengths, and the numbers of windows
LongMaxTemplateLen == 1
LongMinWindows == 199
LongMaxWindows == 201
\* the DTW scorer on short and on long signals (SpecDtwMode): the template
\* lengths and the short signals; the long signals have the lengths on
\* either side of the limit 10 * max_sample_size_for_dtw
ModeMaxTemplateLen == 2
ModeMaxSample == 1
ModeMaxShortLen == 6

(***************************************************************************)
(* Program constants.                                                      *)
(***************************************************************************)
max_sample_size_for_dtw == 1000

(***************************************************************************)
(* Arithmetic helpers.                                                     *)
(***************************************************************************)
Abs(x) == IF x < 0 THEN -x ELSE x

Min2(a, b) == IF a < b THEN a ELSE b

Max2(a, b) == IF a > b THEN a ELSE b

RECURSIVE GCD(_, _)
GCD(a, b) == IF b = 0 THEN a ELSE GCD(b, a % b)

RECURSIVE SumSeq(_)
SumSeq(s) == IF s = <<>> THEN 0 ELSE Head(s) + SumSeq(Tail(s))

\* np.max(np.abs(template))
MaxAbs(s) == CHOOSE m \in {Abs(s[j]) : j \in 1..Len(s)} :
                 \A j \in 1..Len(s) : Abs(s[j]) <= m

\* signal[i : i + template_len]
Window(signal, i, template_len) == SubSeq(signal, i + 1, i + template_len)

(***************************************************************************)
(* Scores as exact tagged fractions.                                       *)
(***************************************************************************)
Frac(kind, n, d) ==
    LET g == GCD(Abs(n), d)
    IN  [kind |-> kind, n |-> n \div g, d |-> d \div g]

SqZero == [kind |-> "sq", n |-> 0, d |-> 1]

\* sgn(c) * sqrt(c^2 / ab), a*b > 0
SqScore(c, ab) == Frac("sq", (IF c < 0 THEN -1 ELSE 1) * c * c, ab)

\* the real number a score stands for is 0 / is 1
IsZero(s) == IF s.kind = "sq" THEN s.n = 0 ELSE s.n = s.d

IsOne(s) == IF s.kind = "sq" THEN s.n = s.d ELSE s.n = 0

\* a < b as real numbers (a and b of the same kind)
ScoreLess(a, b) ==
    IF a.kind = "sq" THEN a.n * b.d < b.n * a.d
                     ELSE a.n * b.d > b.n * a.d

\* score >= h / 100 as real numbers, for 0 <= h <= 100
AtLeast(s, h) ==
    IF s.kind = "sq"
    THEN s.n >= 0 /\ s.n * 100 * 100 >= h * h * s.d
    ELSE s.n * 100 * 100 <= (100 - h) * (100 - h) * s.d

(***************************************************************************)
(* _normalized_cross_correlation.                                          *)
(* With M = len(window), the code's  window - mean(window)  is kept        *)
(* multiplied by M (ZeroMeanScaled) so that it stays an integer.  Then     *)
(*   corr = C / M^2,  M * std_w * std_t = sqrt(A * B) / M^2,               *)
(* for A, B, C the dot products of the scaled vectors, and the score       *)
(* corr / norm_factor is C / sqrt(A * B).  np.isclose(std, 0) is std = 0   *)
(* on integer samples (a non-zero std of a short integer window is far     *)
(* above the 1e-8 tolerance).                                              *)
(***************************************************************************)
ZeroMeanScaled(w) == [j \in 1..Len(w) |-> Len(w) * w[j] - SumSeq(w)]

Dot(a, b) == SumSeq([j \in 1..Len(a) |-> a[j] * b[j]])

\* np.isclose(np.std(w), 0)
IsFlat(w) == Dot(ZeroMeanScaled(w), ZeroMeanScaled(w)) = 0

\* np.clip(score, -1.0, 1.0) on one "sq" score
Clip(s) == IF s.n > s.d THEN [s EXCEPT !.n = s.d]
           ELSE IF s.n < -s.d THEN [s EXCEPT !.n = -s.d]
           ELSE s


\* variant: the sample standard deviation (ddof = 1) in the normalisation,
\* which scales every score by (M - 1) / M
NccWindowScoreSampleStd(window, template) ==
    LET wz == ZeroMeanScaled(window)
        tz == ZeroMeanScaled(template)
        A  == Dot(wz, wz)
        B  == Dot(tz, tz)
        C  == Dot(wz, tz)
        M  == Len(template)
    IN  IF A * B = 0 THEN SqZero
        ELSE SqScore(C * (M - 1), A * B * M * M)

\* variant: a flat window scored 1 instead of 0
NccWindowScoreFlatOne(window, template) ==
    LET wz == ZeroMeanScaled(window)
        tz == ZeroMeanScaled(template)
        A  == Dot(wz, wz)
        B  == Dot(tz, tz)
        C  == Dot(wz, tz)
    IN  IF A = 0 THEN Frac("sq", 1, 1)
        ELSE IF A * B = 0 THEN SqZero
        ELSE SqScore(C, A * B)

\* the body of the loop of lines 778-787 for one window
NccWindowScore(window, template) ==
    LET wz == ZeroMeanScaled(window)
        tz == ZeroMeanScaled(template)
        A  == Dot(wz, wz)
        B  == Dot(tz, tz)
        C  == Dot(wz, tz)
    IN  IF A = 0 THEN SqZero
        ELSE IF A * B = 0 THEN SqZero
        ELSE SqScore(C, A * B)


\* variant: the window loop one window short
normalized_cross_correlation_short(signal, template) ==
    IF Len(template) = 0 \/ Len(signal) = 0 \/ Len(template) > Len(signal)
    THEN <<>>
    ELSE [i \in 1..(Len(signal) - Len(template)) |->
             Clip(NccWindowScore(Window(signal, i - 1, Len(template)), template))]

\* variant: a flat template treated like an invalid one
normalized_cross_correlation_flat_empty(signal, template) ==
    IF Len(template) = 0 \/ Len(signal) = 0 \/ Len(template) > Len(signal)
    THEN <<>>
    ELSE IF IsFlat(template)
    THEN <<>>
    ELSE [i \in 1..(Len(signal) - Len(template) + 1) |->
             Clip(NccWindowScore(Window(signal, i - 1, Len(template)), template))]

normalized_cross_correlation(signal, template) ==
    IF Len(template) = 0 \/ Len(signal) = 0 \/ Len(template) > Len(signal)
    THEN <<>>
    ELSE IF IsFlat(template)
    THEN [i \in 1..(Len(signal) - Len(template) + 1) |-> SqZero]
    ELSE [i \in 1..(Len(signal) - Len(template) + 1) |->
             Clip(NccWindowScore(Window(signal, i - 1, Len(template)), template))]

(***************************************************************************)
(* _calculate_cosine_similarity.  sklearn's cosine_similarity divides the  *)
(* dot product by the two norms and leaves a zero vector as it is, so a    *)
(* zero window or a zero template scores 0.                                *)
(***************************************************************************)
CosineWindowScore(window, template) ==
    LET ww == Dot(window, window)
        tt == Dot(template, template)
    IN  IF ww * tt = 0 THEN SqZero
        ELSE SqScore(Dot(window, template), ww * tt)

calculate_cosine_similarity(signal, template) ==
    IF Len(template) = 0 \/ Len(signal) = 0 \/ Len(template) > Len(signal)
    THEN <<>>
    ELSE [i \in 1..(Len(signal) - Len(template) + 1) |->
             CosineWindowScore(Window(signal, i - 1, Len(template)), template)]

(***************************************************************************)
(* _calculate_dtw_similarity.                                              *)
(* The DTW distance is the cumulative cost of the cheapest warping path    *)
(* under element distance |x - y|, computed row by row.  dtw() (dtw-python,*)
(* step pattern symmetric2) charges a diagonal step twice the element      *)
(* distance; fastdtw() charges it once.                                    *)
(***************************************************************************)
RECURSIVE DtwRow(_, _, _, _, _, _)
DtwRow(x, y, i, prev, acc, diag) ==
    LET j == Len(acc) + 1
        c == Abs(x[i] - y[j])
        v == IF i = 1 /\ j = 1 THEN c
             ELSE IF i = 1 THEN acc[j - 1] + c
             ELSE IF j = 1 THEN prev[1] + c
             ELSE Min2(Min2(prev[j] + c, acc[j - 1] + c), prev[j - 1] + diag * c)
    IN  IF j > Len(y) THEN acc
        ELSE DtwRow(x, y, i, prev, Append(acc, v), diag)

RECURSIVE DtwRows(_, _, _, _, _)
DtwRows(x, y, i, prev, diag) ==
    IF i > Len(x) THEN prev[Len(y)]
    ELSE DtwRows(x, y, i + 1, DtwRow(x, y, i, prev, <<>>, diag), diag)

\* dtw(template, window, dist_method=element_dist_func).distance
DtwDistance(template, window) == DtwRows(template, window, 1, <<>>, 2)

\* fastdtw(template, window, dist=element_dist_func)[0]
FastDtwDistance(template, window) == DtwRows(template, window, 1, <<>>, 1)

\* variant: FastDTW only when both lengths are over their limit
UseFastDtwBothOver(signal, template) ==
    /\ Len(template) > max_sample_size_for_dtw
    /\ Len(signal) > max_sample_size_for_dtw * 10

\* lines 804-806
UseFastDtw(signal, template) ==
    \/ Len(template) > max_sample_size_for_dtw
    \/ Len(signal) > max_sample_size_for_dtw * 10

\* lines 825-830: the library function that measures every window of one
\* call; use_fastdtw is set once, before the loop
DtwAlgorithm(signal, template) ==
    IF UseFastDtw(signal, template) THEN "fastdtw" ELSE "dtw"

\* max_possible_dist_heuristic, squared (lines 811-815): the Euclidean norm
\* of a length-M vector filled with max|template|, or M when that is 0
HeuristicSquared(template) ==
    IF MaxAbs(template) > 0
    THEN MaxAbs(template) * MaxAbs(template) * Len(template)
    ELSE Len(template) * Len(template)

\* variant: the distance not capped at the heuristic (line 836 without min)
DtwWindowScoreUncapped(signal, template, i) ==
    LET window   == Window(signal, i, Len(template))
        distance == IF DtwAlgorithm(signal, template) = "fastdtw"
                    THEN FastDtwDistance(template, window)
                    ELSE DtwDistance(template, window)
        H2       == HeuristicSquared(template)
    IN  Frac("omsq", distance * distance, H2)

\* lines 823-838 for the window at offset i
DtwWindowScore(signal, template, i) ==
    LET window   == Window(signal, i, Len(template))
        distance == IF DtwAlgorithm(signal, template) = "fastdtw"
                    THEN FastDtwDistance(template, window)
                    ELSE DtwDistance(template, window)
        H2       == HeuristicSquared(template)
    IN  IF H2 = 0
        THEN (IF distance = 0 THEN Frac("omsq", 0, 1) ELSE Frac("omsq", 1, 1))
        ELSE Frac("omsq", Min2(distance * distance, H2), H2)

\* the function called without a progress dialog: every window is scored
calculate_dtw_similarity(signal, template) ==
    IF Len(template) = 0 \/ Len(signal) = 0 \/ Len(template) > Len(signal)
    THEN <<>>
    ELSE [i \in 1..(Len(signal) - Len(template) + 1) |->
             DtwWindowScore(signal, template, i - 1)]

(***************************************************************************)
(* scipy.signal.find_peaks(x, height=threshold, distance=peak_distance),   *)
(* as called on line 882: the local maxima (a plateau gives its middle     *)
(* sample, rounded down; the first and the last sample are never peaks),   *)
(* then the height condition, then the distance condition.                 *)
(***************************************************************************)
\* the ascending sequence of the members of a finite set of integers
RECURSIVE SortedSeq(_)
SortedSeq(S) ==
    IF S = {} THEN <<>>
    ELSE LET m == CHOOSE m \in S : \A o \in S : m <= o
         IN  <<m>> \o SortedSeq(S \ {m})

SeqRange(s) == {s[j] : j \in 1..Len(s)}


\* variant: the middle of a plateau rounded up instead of down
LocalMaximaRoundUp(x) ==
    LET n == Len(x)
    IN  { (l + r + 1) \div 2 : <<l, r>> \in
            { lr \in (1..(n - 2)) \X (1..(n - 2)) :
                /\ lr[1] <= lr[2]
                /\ ScoreLess(x[lr[1]], x[lr[1] + 1])
                /\ \A j \in lr[1]..lr[2] : x[j + 1] = x[lr[1] + 1]
                /\ ScoreLess(x[lr[2] + 2], x[lr[2] + 1]) } }

\* variant: the first and the last sample may be peaks too
LocalMaximaWithEdges(x) ==
    LET n == Len(x)
    IN  { (l + r) \div 2 : <<l, r>> \in
            { lr \in (0..(n - 1)) \X (0..(n - 1)) :
                /\ lr[1] <= lr[2]
                /\ (lr[1] = 0 \/ ScoreLess(x[lr[1]], x[lr[1] + 1]))
                /\ \A j \in lr[1]..lr[2] : x[j + 1] = x[lr[1] + 1]
                /\ (lr[2] = n - 1 \/ ScoreLess(x[lr[2] + 2], x[lr[2] + 1])) } }

\* _local_maxima_1d: the midpoints of the plateaus l..r (0-based offsets)
\* with x[l-1] < x[l] and x[r+1] < x[r]
LocalMaxima(x) ==
    LET n == Len(x)
    IN  { (l + r) \div 2 : <<l, r>> \in
            { lr \in (1..(n - 2)) \X (1..(n - 2)) :
                /\ lr[1] <= lr[2]
                /\ ScoreLess(x[lr[1]], x[lr[1] + 1])
                /\ \A j \in lr[1]..lr[2] : x[j + 1] = x[lr[1] + 1]
                /\ ScoreLess(x[lr[2] + 2], x[lr[2] + 1]) } }


\* variant: the distance condition left out
select_by_peak_distance_none(peaks, x, distance) == 1..Len(peaks)

\* variant: the peaks visited from the lowest to the highest
RECURSIVE SelectVisitLowestFirst(_, _, _, _, _)
SelectVisitLowestFirst(peaks, x, distance, todo, keep) ==
    IF todo = {} THEN keep
    ELSE LET j == CHOOSE j \in todo : \A k \in todo \ {j} :
                     \/ ScoreLess(x[peaks[j] + 1], x[peaks[k] + 1])
                     \/ (x[peaks[k] + 1] = x[peaks[j] + 1] /\ j < k)
             near == {k \in 1..Len(peaks) :
                        k /= j /\ Abs(peaks[k] - peaks[j]) < distance}
         IN  IF j \in keep
             THEN SelectVisitLowestFirst(peaks, x, distance, todo \ {j}, keep \ near)
             ELSE SelectVisitLowestFirst(peaks, x, distance, todo \ {j}, keep)

\* _select_by_peak_distance: the peaks are visited from the highest to the
\* lowest (np.argsort is stable on short arrays and is walked backwards, so
\* of two equal peaks the later one is visited first); a visited peak that
\* is still kept removes every other peak closer than the distance.
RECURSIVE SelectVisit(_, _, _, _, _)
SelectVisit(peaks, x, distance, todo, keep) ==
    IF todo = {} THEN keep
    ELSE LET j == CHOOSE j \in todo : \A k \in todo \ {j} :
                     \/ ScoreLess(x[peaks[k] + 1], x[peaks[j] + 1])
                     \/ (x[peaks[k] + 1] = x[peaks[j] + 1] /\ k < j)
             near == {k \in 1..Len(peaks) :
                        k /= j /\ Abs(peaks[k] - peaks[j]) < distance}
         IN  IF j \in keep
             THEN SelectVisit(peaks, x, distance, todo \ {j}, keep \ near)
             ELSE SelectVisit(peaks, x, distance, todo \ {j}, keep)

select_by_peak_distance(peaks, x, distance) ==
    SelectVisit(peaks, x, distance, 1..Len(peaks), 1..Len(peaks))

\* variant: the height condition left out
find_peaks_any_height(x, height, distance) ==
    LET tall == SortedSeq(LocalMaxima(x))
        keep == select_by_peak_distance(tall, x, distance)
    IN  SortedSeq({tall[j] : j \in keep})

\* the peaks_indices that find_peaks returns, ascending
find_peaks(x, height, distance) ==
    LET tall == SortedSeq({p \in LocalMaxima(x) : AtLeast(x[p + 1], height)})
        keep == select_by_peak_distance(tall, x, distance)
    IN  SortedSeq({tall[j] : j \in keep})

\* variant: template_len * 0.75 rounded to the nearest integer, a half to
\* the even neighbour, instead of truncated
PeakDistanceRounded(template_len) ==
    LET q == (template_len * 3) \div 4
        r == (template_len * 3) % 4
    IN  Max2(1, IF r > 2 \/ (r = 2 /\ q % 2 = 1) THEN q + 1 ELSE q)

\* line 881: max(1, int(template_len * 0.75))
PeakDistance(template_len) == Max2(1, (template_len * 3) \div 4)

\* line 885: peaks_indices.any() -- some peak offset is non-zero
AnyNonZero(peaks) == \E j \in 1..Len(peaks) : peaks[j] /= 0

(***************************************************************************)
(* The application state.  An optional value (None in the code) is a       *)
(* sequence of length 0 or 1.                                              *)
(***************************************************************************)
None == <<>>

Some(v) == <<v>>

Get(o) == o[1]

VARIABLES
    reference_signal,        \* self.reference_signal: None or a signal
    readings_signal,         \* self.readings_signal: None or a signal
    time_readings,           \* self.time_readings: None or the time axis
    method,                  \* the checked radio button: "ncc", "cosine", "dtw", "none"
    dsp_threshold,           \* self.dsp_threshold.currentText()
    results_data,            \* self.results_data: None or the stored result
    lbl_status,              \* the text of self.lbl_status
    pc,                      \* where run_analysis stands; "idle" outside a run
    canceled,                \* progress.wasCanceled()
    progress,                \* the value last given to progress.setValue
    threshold_text,          \* run_analysis local: the text read on line 857; "" before
    threshold,               \* run_analysis local, in hundredths
    template_len,            \* run_analysis local
    similarity_scores,       \* run_analysis local
    peak_distance,           \* run_analysis local
    peaks_indices,           \* run_analysis local
    i,                       \* the loop index of the DTW loop / of the assembly loop
    detected_pulse_details,  \* run_analysis local
    plot_data_noise_zero,    \* run_analysis local: the noise-zeroed signal
    clock,                   \* datetime.now(), in seconds
    cancel_point,            \* history: where the Cancel click of this run was delivered
    trace                    \* history: the phases this run has performed, in order

settings == <<reference_signal, readings_signal, time_readings, method>>

frame == <<threshold_text, threshold, template_len, similarity_scores,
           peak_distance, peaks_indices, i, detected_pulse_details,
           plot_data_noise_zero>>

vars == <<reference_signal, readings_signal, time_readings, method, dsp_threshold,
          results_data, lbl_status, pc, canceled, progress, threshold_text,
          threshold, template_len, similarity_scores, peak_distance, peaks_indices, i,
          detected_pulse_details, plot_data_noise_zero, clock, cancel_point,
          trace>>

(***************************************************************************)
(* float(self.dsp_threshold.currentText().replace(",", ".")) on the texts  *)
(* the model enters: the value in hundredths, or None for a ValueError.    *)
(***************************************************************************)
ReplaceComma(text) == IF text = "0,90" THEN "0.90" ELSE text

FloatOf(text) ==
    CASE text = "0.00"  -> Some(0)
      [] text = "0.50"  -> Some(50)
      [] text = "0.70"  -> Some(70)
      [] text = "0.90"  -> Some(90)
      [] text = "1.00"  -> Some(100)
      [] text = "1.50"  -> Some(150)
      [] text = "-0.10" -> Some(-10)
      [] OTHER          -> None


\* variant: the range check of line 859 left out
ParseThresholdNoRange(text) ==
    LET v == FloatOf(ReplaceComma(text))
    IN  IF v /= None THEN Get(v) ELSE 70

\* lines 856-861: the threshold the run uses
ParseThreshold(text) ==
    LET v == FloatOf(ReplaceComma(text))
    IN  IF v /= None /\ 0 <= Get(v) /\ Get(v) <= 100 THEN Get(v) ELSE 70

\* lines 862-864: the combo box after the parse
ThresholdTextAfter(text) ==
    LET v == FloatOf(ReplaceComma(text))
    IN  IF v /= None /\ 0 <= Get(v) /\ Get(v) <= 100 THEN text ELSE "0.70"

MethodName(m) ==
    CASE m = "ncc"    -> "Normalized Cross Correlation"
      [] m = "cosine" -> "Cosine Similarity"
      [] m = "dtw"    -> "Dynamic Time Warping (Similarity)"
      [] OTHER        -> ""

(***************************************************************************)
(* The state after PulseAnalyzerApp.__init__ (lines 131-152).  The locals  *)
(* of run_analysis do not exist outside a run; they are given fixed values.*)
(***************************************************************************)
FrameInit ==
    /\ threshold_text = ""
    /\ threshold = 70
    /\ template_len = 0
    /\ similarity_scores = <<>>
    /\ peak_distance = 1
    /\ peaks_indices = <<>>
    /\ i = 0
    /\ detected_pulse_details = <<>>
    /\ plot_data_noise_zero = <<>>

Init ==
    /\ reference_signal = None
    /\ readings_signal = None
    /\ time_readings = None
    /\ method \in {"none", "ncc"}
    /\ dsp_threshold = "0.70"
    /\ results_data = None
    /\ lbl_status = "Status: Ready. Load data to begin."
    /\ pc = "idle"
    /\ canceled = FALSE
    /\ progress = 0
    /\ FrameInit
    /\ clock = 0
    /\ cancel_point = "none"
    /\ trace = <<>>

(***************************************************************************)
(* What the user does between runs.                                        *)
(***************************************************************************)
Signals(maxSample, maxLen) ==
    UNION {[1..n -> 0..maxSample] : n \in 0..maxLen}

\* the files of the session: flat and step-shaped references, silent and
\* pulse-train readings
Zeros(n) == [j \in 1..n |-> 0]

Ones(n) == [j \in 1..n |-> 1]

Step(n) == [j \in 1..n |-> IF j = n THEN 1 ELSE 0]

Alt(n) == [j \in 1..n |-> (j + 1) % 2]

\* the time axis of a loaded file: the sample indices (np.arange) when the
\* file has no usable time column, else the values of that column
Arange(n) == [j \in 1..n |-> j - 1]

Stamps(n) == [j \in 1..n |-> 10 + 5 * (j - 1)]

TimeAxes(n) == {Arange(n), Stamps(n)}

ReferenceFiles == {Ones(m) : m \in 0..MaxRefLen} \cup {Step(m) : m \in 0..MaxRefLen}

\* silent readings come without a time column, pulse trains with one
ReadingsFiles ==
    {[signal |-> Zeros(n), time |-> Arange(n)] : n \in 0..MaxReadLen}
        \cup {[signal |-> Alt(n), time |-> Stamps(n)] : n \in 0..MaxReadLen}

\* lines 736-751; a load that fails (the file dialog was dismissed) leaves
\* the status line as it was
load_reference_data ==
    /\ pc = "idle"
    /\ \E o \in {None} \cup {Some(s) : s \in ReferenceFiles} :
          /\ reference_signal' = o
          /\ lbl_status' = IF o = None THEN lbl_status
                           ELSE "Status: Reference signal loaded."
    /\ UNCHANGED <<clock, readings_signal, time_readings, method, dsp_threshold, results_data, pc,
                   canceled, progress, frame, cancel_point, trace>>

\* lines 753-769
load_readings_data ==
    /\ pc = "idle"
    /\ \E o \in {None} \cup {Some(f) : f \in ReadingsFiles} :
          /\ readings_signal' = IF o = None THEN None ELSE Some(Get(o).signal)
          /\ time_readings' = IF o = None THEN None ELSE Some(Get(o).time)
          /\ lbl_status' = IF o = None THEN lbl_status
                           ELSE "Status: Readings signal loaded."
    /\ UNCHANGED <<clock, reference_signal, method, dsp_threshold, results_data, pc,
                   canceled, progress, frame, cancel_point, trace>>

\* the radio buttons of similarity_method_group (lines 190-193)
SelectMethod ==
    /\ pc = "idle"
    /\ \E m \in {"ncc", "cosine", "dtw"} : method' = m
    /\ UNCHANGED <<clock, reference_signal, readings_signal, time_readings,
                   dsp_threshold, results_data, lbl_status, pc, canceled, progress, frame,
                   cancel_point, trace>>

\* the threshold combo box, read on line 857
MainThresholdTexts == {"0.00", "0.70", "1.50", "abc"}

SetThreshold ==
    /\ pc = "idle"
    /\ \E text \in MainThresholdTexts : dsp_threshold' = text
    /\ UNCHANGED <<clock, reference_signal, readings_signal, time_readings,
                   method, results_data,
                   lbl_status, pc, canceled, progress, frame, cancel_point,
                   trace>>

(***************************************************************************)
(* run_analysis (lines 842-928), cut at the points where the event loop    *)
(* runs and a click on the dialog's Cancel button can be delivered.  Each  *)
(* action takes the set of such points at which a click may arrive; `at`   *)
(* is the point chosen, "none" for no click.                               *)
(***************************************************************************)
\* the clicks that can arrive at the points `here`: none once the dialog
\* has been cancelled (cancel() hides it)
Clicks(points, here) ==
    IF canceled THEN {"none"} ELSE points \cap ({"none"} \cup here)

\* the first click of a run is the one recorded
Noted(at) == IF at /= "none" /\ cancel_point = "none" THEN at ELSE cancel_point


\* variant: the length comparison of line 850 left out
ValidationErrorNoLengthCheck ==
    IF reference_signal = None \/ readings_signal = None
    THEN "Error: Load both signals."
    ELSE IF Len(Get(reference_signal)) = 0
    THEN "Error: Reference signal empty."
    ELSE ""

\* lines 846-851: the status of the validation that fails, "" when none does
ValidationError ==
    IF reference_signal = None \/ readings_signal = None
    THEN "Error: Load both signals."
    ELSE IF Len(Get(reference_signal)) = 0
    THEN "Error: Reference signal empty."
    ELSE IF Len(Get(reference_signal)) > Len(Get(readings_signal))
    THEN "Error: Reference longer than readings."
    ELSE ""

\* lines 843-866: validation, the progress dialog, the threshold, the first
\* cancellation poll
RunBeginWith(points) ==
    /\ pc = "idle"
    /\ trace' = <<>>
    /\ UNCHANGED <<settings, clock, plot_data_noise_zero, results_data,
                   similarity_scores, peak_distance,
                   peaks_indices, i, detected_pulse_details>>
    /\ IF ValidationError /= ""
       THEN /\ lbl_status' = ValidationError
            /\ pc' = "done"
            /\ cancel_point' = "none"
            /\ UNCHANGED <<dsp_threshold, canceled, progress, threshold_text,
                           threshold, template_len>>
       ELSE \E at \in points \cap {"none", "line854", "line866"} :
            /\ template_len' = Len(Get(reference_signal))
            /\ threshold_text' = ReplaceComma(dsp_threshold)
            /\ threshold' = ParseThreshold(dsp_threshold)
            /\ dsp_threshold' = ThresholdTextAfter(dsp_threshold)
            /\ cancel_point' = at
            /\ canceled' = (at /= "none")
            /\ IF at = "line854"
               THEN /\ lbl_status' = "Status: Analysis cancelled."
                    /\ progress' = 100
                    /\ pc' = "done"
               ELSE /\ lbl_status' = "Status: Analyzing... Please wait."
                    /\ progress' = 10
                    /\ pc' = "dispatch"

\* lines 867-873 and, for DTW, lines 803-817 of _calculate_dtw_similarity
DispatchWith(points) ==
    /\ pc = "dispatch"
    /\ UNCHANGED <<settings, clock, plot_data_noise_zero, dsp_threshold,
                   results_data, threshold_text, threshold, template_len,
                   peak_distance, peaks_indices, detected_pulse_details>>
    /\ IF method = "ncc"
       THEN /\ similarity_scores' = normalized_cross_correlation(
                                        Get(readings_signal), Get(reference_signal))
            /\ trace' = Append(trace, "score")
            /\ pc' = "scored"
            /\ UNCHANGED <<lbl_status, canceled, progress, i, cancel_point>>
       ELSE IF method = "cosine"
       THEN /\ similarity_scores' = calculate_cosine_similarity(
                                        Get(readings_signal), Get(reference_signal))
            /\ trace' = Append(trace, "score")
            /\ pc' = "scored"
            /\ UNCHANGED <<lbl_status, canceled, progress, i, cancel_point>>
       ELSE IF method = "dtw"
       THEN \E at \in Clicks(points, {"line871"}) :
            /\ lbl_status' = IF UseFastDtw(Get(readings_signal), Get(reference_signal))
                             THEN "Info: Using FastDTW due to signal size."
                             ELSE "Status: Calculating DTW similarity..."
            /\ canceled' = (canceled \/ at /= "none")
            /\ cancel_point' = Noted(at)
            /\ i' = 0
            /\ trace' = Append(trace, "score")
            /\ IF \/ Len(Get(reference_signal)) = 0
                  \/ Len(Get(readings_signal)) = 0
                  \/ Len(Get(reference_signal)) > Len(Get(readings_signal))
               THEN \* line 803
                    /\ similarity_scores' = <<>>
                    /\ pc' = "scored"
               ELSE \* line 810: np.zeros
                    /\ similarity_scores' =
                          [w \in 1..(Len(Get(readings_signal)) - template_len + 1) |->
                              Frac("omsq", 1, 1)]
                    /\ pc' = "dtw_loop"
            /\ UNCHANGED progress
       ELSE /\ lbl_status' = "Error: No similarity method selected."
            /\ progress' = 100
            /\ pc' = "done"
            /\ UNCHANGED <<similarity_scores, canceled, i, cancel_point, trace>>

\* one iteration of the loop of lines 818-838 and, after the last one,
\* lines 839-840
NumWindows == Len(Get(readings_signal)) - template_len + 1

\* variant: the dialog polled before every window
PollEveryWindow(num_windows) == 1

\* line 818: the dialog is updated and polled before every window whose
\* index is a multiple of max(1, num_windows // 100)
PollEvery(num_windows) == Max2(1, num_windows \div 100)

\* variant: a window whose measurement raised scores 1
FailedWindowScoreOne == Frac("omsq", 0, 1)

\* line 832: the score of a window whose measurement raised
FailedWindowScore == Frac("omsq", 1, 1)

\* `outcomes` says whether dtw() / fastdtw() may raise: the set of the values
\* that "the call raised" can take.  A window that raised is noted in trace.
DtwStepFailing(points, outcomes) ==
    /\ pc = "dtw_loop"
    /\ UNCHANGED <<settings, clock, plot_data_noise_zero, dsp_threshold,
                   results_data, lbl_status, threshold_text, threshold, template_len, peak_distance,
                   peaks_indices, detected_pulse_details>>
    /\ LET polled == (i % PollEvery(NumWindows) = 0)
       IN  \E at \in Clicks(points, IF polled THEN {"line821"} ELSE {}) :
           /\ canceled' = (canceled \/ at /= "none")
           /\ cancel_point' = Noted(at)
           /\ IF polled /\ canceled'
              THEN \* line 822: return np.array([])
                   /\ progress' = (i * 100) \div NumWindows
                   /\ similarity_scores' = <<>>
                   /\ pc' = "scored"
                   /\ UNCHANGED <<i, trace>>
              ELSE \E raised \in outcomes :
                   /\ similarity_scores' =
                         [similarity_scores EXCEPT ![i + 1] =
                             IF raised THEN FailedWindowScore
                             ELSE DtwWindowScore(Get(readings_signal),
                                                 Get(reference_signal), i)]
                   /\ trace' = IF raised THEN Append(trace, "window_failed")
                                ELSE trace
                   /\ i' = i + 1
                   /\ IF i + 1 < NumWindows
                      THEN /\ progress' = IF polled THEN (i * 100) \div NumWindows
                                          ELSE progress
                           /\ pc' = "dtw_loop"
                      ELSE /\ progress' = 100
                           /\ pc' = "scored"

\* the loop when the library calls do not raise
DtwStepWith(points) == DtwStepFailing(points, {FALSE})

\* variant: the new pulses merged into the stored result
ResultRecordMerged(pulses, total) ==
    [detected_pulses  |-> IF results_data = None THEN pulses
                          ELSE Get(results_data).detected_pulses \o pulses,
     method           |-> MethodName(method),
     threshold        |-> threshold,
     reference_length |-> Len(Get(reference_signal)),
     total_pulses     |-> total,
     timestamp        |-> clock]

\* the stored result of line 919
ResultRecord(pulses, total) ==
    [detected_pulses  |-> pulses,
     method           |-> MethodName(method),
     threshold        |-> threshold,
     reference_length |-> Len(Get(reference_signal)),
     total_pulses     |-> total,
     timestamp        |-> clock]


\* variant: the poll of line 874 left out
NotPolledAfterScoring == FALSE

\* line 874: progress.wasCanceled() once the scorer has returned
CanceledAfterScoring == canceled


\* variant: the earlier result left in place
NoPulsesResultKept == results_data

\* line 893: what a run that finds no pulses leaves in self.results_data
NoPulsesResult == None

\* lines 874-903: after the scorer returned, up to the start of the
\* assembly loop
AfterScoringWith(points) ==
    /\ pc = "scored"
    /\ UNCHANGED <<settings, clock, dsp_threshold, threshold_text, threshold,
                   template_len, similarity_scores>>
    /\ IF CanceledAfterScoring
       THEN \* line 874
            /\ lbl_status' = "Status: Analysis cancelled."
            /\ progress' = 100
            /\ pc' = "done"
            /\ UNCHANGED <<results_data, canceled, peak_distance, peaks_indices,
                           i, detected_pulse_details, plot_data_noise_zero,
                           cancel_point, trace>>
       ELSE \E at \in Clicks(points, (IF method /= "dtw" THEN {"line875"} ELSE {})
                                      \cup {"line884", "line894"}) :
            /\ canceled' = (at /= "none")
            /\ cancel_point' = Noted(at)
            /\ IF similarity_scores = <<>>
               THEN \* lines 876-880
                    /\ lbl_status' = "Status: Similarity calculation returned no valid scores."
                    /\ progress' = 100
                    /\ pc' = "done"
                    /\ UNCHANGED <<results_data, peak_distance, peaks_indices, i,
                                   detected_pulse_details,
                                   plot_data_noise_zero, trace>>
               ELSE /\ peak_distance' = PeakDistance(template_len)
                    /\ peaks_indices' = find_peaks(similarity_scores, threshold,
                                                   peak_distance')
                    /\ IF at = "line875"
                       THEN \* line 883
                            /\ lbl_status' = "Status: Analysis cancelled."
                            /\ progress' = 100
                            /\ pc' = "done"
                            /\ trace' = Append(trace, "peaks")
                            /\ UNCHANGED <<results_data, i, detected_pulse_details,
                                           plot_data_noise_zero>>
                       ELSE IF ~AnyNonZero(peaks_indices') /\ at /= "line894"
                       THEN \* lines 885-893
                            /\ lbl_status' = "Status: No pulses found above threshold."
                            /\ results_data' = NoPulsesResult
                            /\ progress' = 100
                            /\ pc' = "done"
                            /\ trace' = Append(Append(trace, "peaks"), "clear")
                            /\ UNCHANGED <<i, detected_pulse_details,
                                           plot_data_noise_zero>>
                       ELSE IF AnyNonZero(peaks_indices')
                       THEN \* lines 894-904
                            /\ lbl_status' = "Status: Found potential pulses. Plotting..."
                            /\ progress' = 80
                            /\ detected_pulse_details' = <<>>
                            /\ plot_data_noise_zero' =
                                   [j \in 1..Len(Get(readings_signal)) |-> 0]
                            /\ i' = 0
                            /\ pc' = "assemble"
                            /\ trace' = Append(trace, "peaks")
                            /\ UNCHANGED results_data
                       ELSE FALSE

\* line 896
current_time_axis ==
    IF time_readings /= None THEN Get(time_readings)
    ELSE Arange(Len(Get(readings_signal)))

\* variant: the loop index taken as the id
PulseRecordIdFromZero(idx) ==
    LET pulse_start_in_readings == peaks_indices[idx + 1]
        pulse_end_in_readings   == pulse_start_in_readings + template_len
    IN  [id                 |-> idx,
         start_idx_readings |-> pulse_start_in_readings,
         end_idx_readings   |-> pulse_end_in_readings - 1,
         start_time         |-> current_time_axis[pulse_start_in_readings + 1],
         end_time           |-> current_time_axis[pulse_end_in_readings],
         similarity_score   |-> similarity_scores[pulse_start_in_readings + 1]]

\* variant: the exclusive end of the slice taken as the pulse's end index
PulseRecordEndExclusive(idx) ==
    LET pulse_start_in_readings == peaks_indices[idx + 1]
        pulse_end_in_readings   == pulse_start_in_readings + template_len
    IN  [id                 |-> idx + 1,
         start_idx_readings |-> pulse_start_in_readings,
         end_idx_readings   |-> pulse_end_in_readings,
         start_time         |-> current_time_axis[pulse_start_in_readings + 1],
         end_time           |-> current_time_axis[pulse_end_in_readings],
         similarity_score   |-> similarity_scores[pulse_start_in_readings + 1]]

\* the record appended on line 915 for the peak with index idx (0-based) in
\* peaks_indices; properties['peak_heights'][idx] is the score at that peak
PulseRecord(idx) ==
    LET pulse_start_in_readings == peaks_indices[idx + 1]
        pulse_end_in_readings   == pulse_start_in_readings + template_len
    IN  [id                 |-> idx + 1,
         start_idx_readings |-> pulse_start_in_readings,
         end_idx_readings   |-> pulse_end_in_readings - 1,
         start_time         |-> current_time_axis[pulse_start_in_readings + 1],
         end_time           |-> current_time_axis[pulse_end_in_readings],
         similarity_score   |-> similarity_scores[pulse_start_in_readings + 1]]

\* variant: the last sample of the pulse left out
WritePulseShort(plot, readings, start, stop) ==
    [j \in 1..Len(plot) |->
        IF start < j /\ j < stop THEN readings[j] ELSE plot[j]]

\* line 913: plot_data_noise_zero[start:stop] = readings_signal[start:stop]
WritePulse(plot, readings, start, stop) ==
    [j \in 1..Len(plot) |->
        IF start < j /\ j <= stop THEN readings[j] ELSE plot[j]]

\* one iteration of the loop of lines 905-915
AssembleStepWith(points) ==
    /\ pc = "assemble"
    /\ UNCHANGED <<settings, clock, dsp_threshold, results_data,
                   threshold_text, threshold, template_len, similarity_scores,
                   peak_distance, peaks_indices>>
    /\ IF canceled
       THEN \* line 906: break
            /\ lbl_status' = "Status: Plotting cancelled."
            /\ pc' = "finish"
            /\ UNCHANGED <<canceled, progress, i, detected_pulse_details,
                           plot_data_noise_zero, cancel_point, trace>>
       ELSE \E at \in Clicks(points, {"line907"}) :
            /\ canceled' = (at /= "none")
            /\ cancel_point' = Noted(at)
            /\ progress' = 80 + (i * 19) \div Len(peaks_indices)
            /\ detected_pulse_details' =
                  IF peaks_indices[i + 1] + template_len > Len(Get(readings_signal))
                  THEN detected_pulse_details
                  ELSE Append(detected_pulse_details, PulseRecord(i))
            /\ plot_data_noise_zero' =
                  IF peaks_indices[i + 1] + template_len > Len(Get(readings_signal))
                  THEN plot_data_noise_zero
                  ELSE WritePulse(plot_data_noise_zero, Get(readings_signal),
                                  peaks_indices[i + 1],
                                  peaks_indices[i + 1] + template_len)
            /\ i' = i + 1
            /\ trace' = Append(trace, "assemble")
            /\ pc' = IF i + 1 < Len(peaks_indices) THEN "assemble" ELSE "finish"
            /\ UNCHANGED lbl_status

\* lines 916-921
Finish ==
    /\ pc = "finish"
    /\ results_data' = Some(ResultRecord(detected_pulse_details, Len(peaks_indices)))
    /\ lbl_status' = "Status: Analysis complete."
    /\ progress' = 100
    /\ pc' = "done"
    /\ trace' = Append(trace, "store")
    /\ UNCHANGED <<settings, clock, dsp_threshold, canceled, frame, cancel_point>>

\* lines 927-928 and the return to the event loop: the dialog and the
\* locals of run_analysis are gone
Return ==
    /\ pc = "done"
    /\ pc' = "idle"
    /\ canceled' = FALSE
    /\ progress' = 0
    /\ threshold_text' = ""
    /\ threshold' = 70
    /\ template_len' = 0
    /\ similarity_scores' = <<>>
    /\ peak_distance' = 1
    /\ peaks_indices' = <<>>
    /\ i' = 0
    /\ detected_pulse_details' = <<>>
    /\ plot_data_noise_zero' = <<>>
    /\ cancel_point' = "none"
    /\ trace' = <<>>
    /\ UNCHANGED <<settings, clock, dsp_threshold, results_data, lbl_status>>

(***************************************************************************)
(* The session: the user loads signals, picks a method and a threshold,    *)
(* runs the analysis and may click Cancel wherever the event loop runs.    *)
(***************************************************************************)
CancelPoints == {"none", "line854", "line866", "line871", "line821",
                 "line875", "line884", "line894", "line907"}

RunBegin == RunBeginWith(CancelPoints)

Dispatch == DispatchWith(CancelPoints)

DtwStep == DtwStepWith(CancelPoints)

AfterScoring == AfterScoringWith(CancelPoints)

AssembleStep == AssembleStepWith(CancelPoints)

Next ==
    \/ load_reference_data
    \/ load_readings_data
    \/ SelectMethod
    \/ SetThreshold
    \/ RunBegin
    \/ Dispatch
    \/ DtwStep
    \/ AfterScoring
    \/ AssembleStep
    \/ Finish
    \/ Return

Spec == Init /\ [][Next]_vars

(***************************************************************************)
(* SpecScore: the three scorers called directly on arbitrary signals,      *)
(* including the empty and the oversized template that run_analysis never  *)
(* passes on.  The DTW scorer is called without a progress dialog.         *)
(***************************************************************************)
Scores(m, signal, template) ==
    CASE m = "ncc"    -> normalized_cross_correlation(signal, template)
      [] m = "cosine" -> calculate_cosine_similarity(signal, template)
      [] m = "dtw"    -> calculate_dtw_similarity(signal, template)

Quiet ==
    /\ results_data = None
    /\ lbl_status = "Status: Ready. Load data to begin."
    /\ canceled = FALSE
    /\ progress = 0
    /\ clock = 0
    /\ cancel_point = "none"
    /\ trace = <<>>

InitScore ==
    /\ \E t \in Signals(ScoreMaxSample, ScoreMaxTemplateLen) :
          reference_signal = Some(t)
    /\ \E s \in Signals(ScoreMaxSample, ScoreMaxSignalLen) :
          readings_signal = Some(s)
    /\ time_readings = Some(Arange(Len(Get(readings_signal))))
    /\ method = "none"
    /\ dsp_threshold = "0.70"
    /\ pc = "scorer_call"
    /\ FrameInit
    /\ Quiet

ScoreCall ==
    /\ pc = "scorer_call"
    /\ \E m \in {"ncc", "cosine", "dtw"} :
          /\ method' = m
          /\ similarity_scores' =
                 Scores(m, Get(readings_signal), Get(reference_signal))
    /\ pc' = "scorer_returned"
    /\ UNCHANGED <<clock, plot_data_noise_zero, reference_signal,
                   readings_signal, time_readings, dsp_threshold,
                   results_data, lbl_status, canceled, progress, threshold_text,
                   threshold, template_len, peak_distance, peaks_indices, i,
                   detected_pulse_details, cancel_point, trace>>

SpecScore == InitScore /\ [][ScoreCall]_vars

(***************************************************************************)
(* SpecEmbed: runs of the analysis, NCC selected and never cancelled, on a *)
(* readings signal that is the reference copied into a zero background.    *)
(***************************************************************************)
Embed(ref, k, n) ==
    [j \in 1..n |-> IF k < j /\ j <= k + Len(ref) THEN ref[j - k] ELSE 0]

EmbedThresholdTexts == {"0.00", "0.50", "0.90", "1.00"}

InitEmbed ==
    /\ \E ref \in Signals(EmbedMaxSample, EmbedMaxRefLen) \ {<<>>} :
       \E n \in Len(ref)..EmbedMaxReadLen :
       \E k \in 0..(n - Len(ref)) :
          /\ reference_signal = Some(ref)
          /\ readings_signal = Some(Embed(ref, k, n))
          /\ time_readings = Some(Arange(n))
    /\ method = "ncc"
    /\ dsp_threshold \in EmbedThresholdTexts
    /\ pc = "idle"
    /\ FrameInit
    /\ Quiet

NoClick == {"none"}

NextEmbed ==
    \/ RunBeginWith(NoClick)
    \/ DispatchWith(NoClick)
    \/ AfterScoringWith(NoClick)
    \/ AssembleStepWith(NoClick)
    \/ Finish

SpecEmbed == InitEmbed /\ [][NextEmbed]_vars

(***************************************************************************)
(* SpecPeaks: lines 881-882 on arbitrary score sequences.  A score of      *)
(* level l stands for l / PeakMaxLevel.                                    *)
(***************************************************************************)
Level(l) == Frac("sq", l * l, PeakMaxLevel * PeakMaxLevel)

InitPeaks ==
    /\ \E n \in 0..PeakMaxScores :
          similarity_scores \in [1..n -> {Level(l) : l \in 0..PeakMaxLevel}]
    /\ template_len \in 1..PeakMaxTemplateLen
    /\ threshold \in {0, 50, 100}
    /\ threshold_text = ""
    /\ peak_distance = 1
    /\ peaks_indices = <<>>
    /\ i = 0
    /\ detected_pulse_details = <<>>
    /\ plot_data_noise_zero = <<>>
    /\ reference_signal = None
    /\ readings_signal = None
    /\ time_readings = None
    /\ method = "none"
    /\ dsp_threshold = "0.70"
    /\ pc = "peaks_call"
    /\ Quiet

ExtractPeaks ==
    /\ pc = "peaks_call"
    /\ peak_distance' = PeakDistance(template_len)
    /\ peaks_indices' = find_peaks(similarity_scores, threshold, peak_distance')
    /\ pc' = "peaks_returned"
    /\ UNCHANGED <<settings, clock, plot_data_noise_zero, dsp_threshold,
                   results_data, lbl_status, canceled,
                   progress, threshold_text, threshold, template_len,
                   similarity_scores, i, detected_pulse_details, cancel_point,
                   trace>>

SpecPeaks == InitPeaks /\ [][ExtractPeaks]_vars

(***************************************************************************)
(* Properties.                                                             *)
(***************************************************************************)
Ref == Get(reference_signal)

Readings == Get(readings_signal)

Did(phase) == phase \in SeqRange(trace)

StatusCancelled == "Status: Analysis cancelled."

StatusNoScores == "Status: Similarity calculation returned no valid scores."

StatusNoPulses == "Status: No pulses found above threshold."

StatusComplete == "Status: Analysis complete."

ValidationErrors == {"Error: Load both signals.",
                     "Error: Reference signal empty.",
                     "Error: Reference longer than readings."}

\* C1: each scorer returns N - M + 1 scores when 1 <= M <= N and an empty
\* sequence when M = 0, N = 0 or M > N.
C1_ScoreLength ==
    pc = "scorer_returned" =>
        Len(similarity_scores) =
            IF 1 <= Len(Ref) /\ Len(Ref) <= Len(Readings)
            THEN Len(Readings) - Len(Ref) + 1
            ELSE 0

C1_Witness ==
    /\ pc = "scorer_returned"
    /\ method = "dtw"
    /\ Len(Ref) >= 2
    /\ Len(Readings) > Len(Ref)
    /\ Len(similarity_scores) = Len(Readings) - Len(Ref) + 1

\* The scenario of C2: reference [1,2,3] in readings [0,0,1,2,3,0,0], NCC,
\* threshold 0.9, the run ended.
ScenarioEnded ==
    /\ pc = "done"
    /\ reference_signal = Some(<<1, 2, 3>>)
    /\ readings_signal = Some(<<0, 0, 1, 2, 3, 0, 0>>)
    /\ method = "ncc"
    /\ threshold = 90

OnePulseAt(start, stop) ==
    /\ results_data /= None
    /\ Len(Get(results_data).detected_pulses) = 1
    /\ Get(results_data).detected_pulses[1].start_idx_readings = start
    /\ Get(results_data).detected_pulses[1].end_idx_readings = stop
    /\ IsOne(Get(results_data).detected_pulses[1].similarity_score)

\* C2 as stated: the scenario yields exactly one pulse, at start_index 2,
\* end_index 4, with score 1.0.
C2_Original == ScenarioEnded => OnePulseAt(2, 4)

\* C2 as amended: the scenario yields exactly one pulse, at start_index 1,
\* end_index 3, with score 1.0 (the windows at offsets 1 and 2 both score
\* 1.0 and the middle of that plateau, rounded down, is the peak).
C2_ScenarioPulse ==
    ScenarioEnded =>
        /\ OnePulseAt(1, 3)
        /\ IsOne(similarity_scores[2])
        /\ IsOne(similarity_scores[3])

C2_Witness == ScenarioEnded /\ lbl_status = StatusComplete

\* The offsets k at which the readings are the reference in a zero
\* background.
EmbedOffsets ==
    {k \in 0..(Len(Readings) - Len(Ref)) :
        Readings = Embed(Ref, k, Len(Readings))}

PeaksExtracted == pc \in {"assemble", "finish", "done"} /\ Did("peaks")

\* k is neither the first nor the last window offset
Interior(k) == 1 <= k /\ k <= Len(Readings) - Len(Ref) - 1

\* no other offset closer to k than max(2, peak_distance) scores 1.0
AloneAtOne(k) ==
    \A j \in 0..(Len(similarity_scores) - 1) :
        (j /= k /\ Abs(j - k) < Max2(2, peak_distance))
            => ~IsOne(similarity_scores[j + 1])

\* C3 as stated: with a non-flat reference copied in at offset k, the NCC
\* score at k is 1.0 and the peaks are exactly <<k>>.
C3_Original ==
    (PeaksExtracted /\ ~IsFlat(Ref)) =>
        \A k \in EmbedOffsets :
            /\ IsOne(similarity_scores[k + 1])
            /\ peaks_indices = <<k>>

\* C3 as amended: the NCC score at k is 1.0; k is among the returned peaks
\* when it is an interior offset and no other offset closer than
\* max(2, minimum distance) scores 1.0; k is not returned when it is the
\* first or the last offset.
C3_RoundTrip ==
    (PeaksExtracted /\ ~IsFlat(Ref)) =>
        \A k \in EmbedOffsets :
            /\ IsOne(similarity_scores[k + 1])
            /\ (Interior(k) /\ AloneAtOne(k)) => k \in SeqRange(peaks_indices)
            /\ ~Interior(k) => k \notin SeqRange(peaks_indices)

C3_Witness ==
    /\ PeaksExtracted
    /\ ~IsFlat(Ref)
    /\ Len(Ref) = 3
    /\ threshold = 100
    /\ \E k \in EmbedOffsets :
          Interior(k) /\ AloneAtOne(k) /\ peaks_indices = <<k>>

\* C4: no two peaks that find_peaks returns are closer than the minimum
\* distance.
C4_PeakSeparation ==
    pc = "peaks_returned" =>
        \A a, b \in 1..Len(peaks_indices) :
            a /= b => Abs(peaks_indices[a] - peaks_indices[b]) >= peak_distance

C4_Witness ==
    /\ pc = "peaks_returned"
    /\ peak_distance = 3
    /\ Len(peaks_indices) = 2
    /\ \E p \in LocalMaxima(similarity_scores) :
          AtLeast(similarity_scores[p + 1], threshold)
          /\ p \notin SeqRange(peaks_indices)

\* the reference that run_analysis refuses: missing, empty, or longer than
\* the readings
InvalidReference ==
    \/ reference_signal = None
    \/ readings_signal = None
    \/ Len(Ref) = 0
    \/ Len(Ref) > Len(Readings)

\* C5: a run started with a missing, empty or too long reference ends at once
\* with a validation error: no scorer is called, no peaks are extracted, no
\* pulse is assembled and results_data is left as it was.
C5_InvalidReferenceRejected ==
    [][(pc = "idle" /\ pc' /= "idle" /\ InvalidReference) =>
          /\ pc' = "done"
          /\ lbl_status' \in ValidationErrors
          /\ trace' = <<>>
          /\ results_data' = results_data
          /\ similarity_scores' = <<>>
          /\ peaks_indices' = <<>>
          /\ detected_pulse_details' = <<>>]_vars

C5_Witness ==
    /\ pc = "done"
    /\ reference_signal /= None
    /\ readings_signal /= None
    /\ Len(Ref) > Len(Readings)
    /\ lbl_status = "Error: Reference longer than readings."
    /\ results_data /= None
    /\ trace = <<>>

\* the threshold text of the run is a number in [0.0, 1.0]
ThresholdInRange == FloatOf(threshold_text) /= None /\
                    0 <= Get(FloatOf(threshold_text)) /\
                    Get(FloatOf(threshold_text)) <= 100

\* a run that got past validation, with a method selected and no Cancel
\* click, has ended with a threshold text that is out of range or no number
EndedWithBadThreshold ==
    /\ pc = "done"
    /\ threshold_text /= ""
    /\ ~ThresholdInRange
    /\ method /= "none"
    /\ cancel_point = "none"

C7_DtwCancelled ==
    (pc = "done" /\ cancel_point = "line821") =>
        /\ lbl_status = StatusCancelled
        /\ lbl_status \notin {StatusNoScores, StatusNoPulses, StatusComplete}
        /\ ~Did("peaks")
        /\ ~Did("store")
        /\ ~Did("clear")

C7_Witness ==
    /\ pc = "done"
    /\ method = "dtw"
    /\ cancel_point = "line821"
    /\ i > 0
    /\ similarity_scores = <<>>
    /\ lbl_status = StatusCancelled

\* C8: wherever Cancel is clicked in a run (of a selected method), the run
\* ends with the cancelled status and neither sets nor clears results_data.
C8_CancelledStoresNothing ==
    (pc = "done" /\ cancel_point /= "none" /\ method /= "none") =>
        /\ lbl_status = StatusCancelled
        /\ ~Did("store")
        /\ ~Did("clear")

\* a run without a Cancel click has extracted peaks from a non-empty score
\* sequence and found none
EndedWithoutPeaks ==
    /\ pc = "done"
    /\ cancel_point = "none"
    /\ similarity_scores /= <<>>
    /\ Did("peaks")
    /\ peaks_indices = <<>>

\* C9 as stated: when no peak reaches the threshold the run ends with a
\* stored result whose pulse list is empty, which is not the no-scores
\* outcome.
C9_Original ==
    EndedWithoutPeaks =>
        /\ results_data /= None
        /\ Get(results_data).detected_pulses = <<>>
        /\ lbl_status /= StatusNoScores

\* C9 as amended: when no peak reaches the threshold the run ends with the
\* status "No pulses found", which is neither an error nor the no-scores
\* status, and it leaves no stored result: results_data is cleared.
C9_NoPulsesClearsResult ==
    EndedWithoutPeaks =>
        /\ lbl_status = StatusNoPulses
        /\ lbl_status /= StatusNoScores
        /\ results_data = None
        /\ trace = <<"score", "peaks", "clear">>

C9_Witness ==
    /\ EndedWithoutPeaks
    /\ method = "cosine"
    /\ Len(similarity_scores) >= 3
    /\ lbl_status = StatusNoPulses

\* C10: NCC with a flat template and 1 <= M <= N returns N - M + 1 scores,
\* every one of them 0.
C10_FlatTemplateZeros ==
    (/\ pc = "scorer_returned"
     /\ method = "ncc"
     /\ IsFlat(Ref)
     /\ 1 <= Len(Ref)
     /\ Len(Ref) <= Len(Readings)) =>
        /\ Len(similarity_scores) = Len(Readings) - Len(Ref) + 1
        /\ \A w \in 1..Len(similarity_scores) : similarity_scores[w] = SqZero

C10_Witness ==
    /\ pc = "scorer_returned"
    /\ method = "ncc"
    /\ IsFlat(Ref)
    /\ Len(Ref) = 2
    /\ Ref[1] /= 0
    /\ Len(Readings) > Len(Ref)
    /\ ~IsFlat(Readings)
    /\ Len(similarity_scores) = Len(Readings) - Len(Ref) + 1

\* a run with NCC selected, not cancelled, has scored and ended
NccRunEnded ==
    /\ pc = "done"
    /\ method = "ncc"
    /\ cancel_point = "none"
    /\ Did("score")

\* what the caller can see of the outcome "ran fine, found nothing"
\* (lines 886-893): the no-pulses status and no stored result
FoundNothingOutcome == lbl_status = StatusNoPulses /\ results_data = None

\* C11: a run with NCC and a flat template ends in an outcome the caller can
\* tell from that of a run that scored normally and found no peaks.
C11_FlatReferenceDistinct ==
    (NccRunEnded /\ IsFlat(Ref)) => ~FoundNothingOutcome

(***************************************************************************)
(* Floating point.  numpy computes in binary floating point, every         *)
(* operation rounded to the nearest value with a significand of fixed      *)
(* width, ties to even.  A float is [m, k], standing for m / 2^k with      *)
(* m = 0 or 2^(FloatBits-1) <= m < 2^FloatBits.  The values here are       *)
(* non-negative and below 2^(FloatBits-1).                                 *)
(***************************************************************************)
Pow2(n) == 2 ^ n

FloatZero == [m |-> 0, k |-> 0]

FloatOne == [m |-> Pow2(FloatBits - 1), k |-> FloatBits - 1]

\* num * 2^k, with the k that brings num / den up to FloatBits bits
RECURSIVE ScaleUp(_, _, _)
ScaleUp(num, den, k) ==
    IF num >= den * Pow2(FloatBits - 1) THEN <<num, k>>
    ELSE ScaleUp(2 * num, den, k + 1)

\* the float nearest to num / den, ties to even
RoundQ(num, den) ==
    IF num = 0 THEN FloatZero
    ELSE LET s  == ScaleUp(num, den, 0)
             q  == s[1] \div den
             r  == s[1] % den
             up == 2 * r > den \/ (2 * r = den /\ q % 2 = 1)
             m  == IF up THEN q + 1 ELSE q
         IN  IF m = Pow2(FloatBits) THEN [m |-> Pow2(FloatBits - 1), k |-> s[2] - 1]
             ELSE [m |-> m, k |-> s[2]]

\* integer a divided by float b
FDiv(a, b) == RoundQ(a * Pow2(b.k), b.m)

FMul(x, y) == RoundQ(x.m * y.m, Pow2(x.k + y.k))

FAdd(x, y) ==
    LET K == Max2(x.k, y.k)
    IN  RoundQ(x.m * Pow2(K - x.k) + y.m * Pow2(K - y.k), Pow2(K))

\* the float nearest to the square root of the integer n
FSqrt(n) ==
    IF n = 0 THEN FloatZero
    ELSE LET k == CHOOSE j \in 0..FloatBits :
                      /\ n * Pow2(2 * j) >= Pow2(2 * FloatBits - 2)
                      /\ n * Pow2(2 * j) < Pow2(2 * FloatBits)
             t == n * Pow2(2 * k)
             f == CHOOSE c \in Pow2(FloatBits - 1)..(Pow2(FloatBits) - 1) :
                      c * c <= t /\ t < (c + 1) * (c + 1)
             m == IF t > f * f + f THEN f + 1 ELSE f
         IN  IF m = Pow2(FloatBits) THEN [m |-> Pow2(FloatBits - 1), k |-> k - 1]
             ELSE [m |-> m, k |-> k]

FloatAboveOne(x) == x.m > Pow2(x.k)

\* sklearn's normalize: the vector divided by its Euclidean norm, a zero
\* norm replaced by 1
FloatNormalized(v) ==
    LET sq   == SumSeq([j \in 1..Len(v) |-> v[j] * v[j]])
        norm == IF sq = 0 THEN FloatOne ELSE FSqrt(sq)
    IN  [j \in 1..Len(v) |-> FDiv(v[j], norm)]

\* the dot product, summed left to right
RECURSIVE FloatDot(_, _, _)
FloatDot(a, b, n) ==
    IF n = 0 THEN FloatZero
    ELSE FAdd(FloatDot(a, b, n - 1), FMul(a[n], b[n]))

\* line 798 in floating point: cosine_similarity(window, template)[0][0]
CosineWindowFloat(window, template) ==
    FloatDot(FloatNormalized(window), FloatNormalized(template), Len(template))

\* lines 791-800 in floating point; nan_to_num leaves finite values alone
calculate_cosine_similarity_float(signal, template) ==
    IF Len(template) = 0 \/ Len(signal) = 0 \/ Len(template) > Len(signal)
    THEN <<>>
    ELSE [w \in 1..(Len(signal) - Len(template) + 1) |->
             CosineWindowFloat(Window(signal, w - 1, Len(template)), template)]

(***************************************************************************)
(* SpecFloat: the cosine scorer called on arbitrary non-negative signals,  *)
(* computed in floating point.                                             *)
(***************************************************************************)
InitFloat ==
    /\ \E t \in Signals(FloatMaxSample, FloatMaxLen) : reference_signal = Some(t)
    /\ \E s \in Signals(FloatMaxSample, FloatMaxLen) : readings_signal = Some(s)
    /\ time_readings = Some(Arange(Len(Get(readings_signal))))
    /\ method = "cosine"
    /\ dsp_threshold = "0.70"
    /\ pc = "scorer_call"
    /\ FrameInit
    /\ Quiet

CosineFloatCall ==
    /\ pc = "scorer_call"
    /\ similarity_scores' =
           calculate_cosine_similarity_float(Get(readings_signal),
                                             Get(reference_signal))
    /\ pc' = "scorer_returned"
    /\ UNCHANGED <<settings, clock, plot_data_noise_zero, dsp_threshold,
                   results_data, lbl_status, canceled,
                   progress, threshold_text, threshold, template_len,
                   peak_distance, peaks_indices, i, detected_pulse_details,
                   cancel_point, trace>>

SpecFloat == InitFloat /\ [][CosineFloatCall]_vars

\* C12 (the cosine part): every entry of a cosine score sequence lies in
\* [-1, 1]; the signals being non-negative, every entry is at least 0 and the
\* claim is that none exceeds 1.
C12_CosineInRange ==
    pc = "scorer_returned" =>
        \A w \in 1..Len(similarity_scores) : ~FloatAboveOne(similarity_scores[w])

(***************************************************************************)
(* SpecRepeat: the analysis run again and again on the same signals, with  *)
(* the same method and threshold, never cancelled, while the wall clock    *)
(* that line 919 reads moves on.                                           *)
(***************************************************************************)
RepeatThresholdTexts == {"0.00", "0.70", "-0.10"}

InitRepeat ==
    /\ \E m \in 1..RepeatMaxRefLen : \E t \in {Ones(m), Step(m)} :
          reference_signal = Some(t)
    /\ \E s \in Signals(RepeatMaxSample, RepeatMaxReadLen) \ {<<>>} :
          readings_signal = Some(s)
    /\ time_readings \in {Some(axis) : axis \in TimeAxes(Len(Get(readings_signal)))}
    /\ method \in {"ncc", "cosine", "dtw"}
    /\ dsp_threshold \in RepeatThresholdTexts
    /\ pc = "idle"
    /\ FrameInit
    /\ Quiet

\* a second passes between two runs
Tick ==
    /\ pc = "idle"
    /\ clock < MaxClock
    /\ clock' = clock + 1
    /\ UNCHANGED <<settings, dsp_threshold, results_data, lbl_status, pc,
                   canceled, progress, frame, cancel_point, trace>>

NextRepeat ==
    \/ RunBeginWith(NoClick)
    \/ DispatchWith(NoClick)
    \/ DtwStepWith(NoClick)
    \/ AfterScoringWith(NoClick)
    \/ AssembleStepWith(NoClick)
    \/ Finish
    \/ Return
    \/ Tick

SpecRepeat == InitRepeat /\ [][NextRepeat]_vars

\* the signal that is the readings inside the spans of M samples that start
\* at the given offsets and 0 elsewhere
NoiseZeroedOf(readings, starts, M) ==
    [j \in 1..Len(readings) |->
        IF \E q \in 1..Len(starts) : starts[q] < j /\ j <= starts[q] + M
        THEN readings[j] ELSE 0]

\* a run that follows a run which stored a result is about to store its own
StoresAgain == pc = "finish" /\ results_data /= None

\* C13 as stated: a second run on the same reference, readings, method and
\* threshold stores a result identical to the first in every field, the
\* timestamp included.
C13_Original ==
    [][(StoresAgain /\ pc' = "done") => results_data' = results_data]_vars

\* C13 as amended: a second run on the same inputs stores a result identical
\* to the first in its pulses, method, threshold, reference length and pulse
\* count; the timestamp is the time of each run; the noise-zeroed signal is
\* determined by the inputs alone.
C13_SameResultButTimestamp ==
    [][(StoresAgain /\ pc' = "done") =>
          /\ results_data' /= None
          /\ [Get(results_data') EXCEPT !.timestamp = 0] =
                 [Get(results_data) EXCEPT !.timestamp = 0]
          /\ Get(results_data').timestamp = clock
          /\ plot_data_noise_zero =
                 NoiseZeroedOf(Readings,
                               find_peaks(Scores(method, Readings, Ref), threshold,
                                          PeakDistance(Len(Ref))),
                               Len(Ref))]_vars

C13_Witness ==
    /\ StoresAgain
    /\ Len(Get(results_data).detected_pulses) >= 1
    /\ detected_pulse_details = Get(results_data).detected_pulses
    /\ Get(results_data).timestamp < clock
    /\ method = "dtw"

\* a run that was not cancelled has stored a result with at least one pulse
CompletedWithPulses ==
    /\ pc = "done"
    /\ cancel_point = "none"
    /\ Did("store")
    /\ results_data /= None
    /\ Get(results_data).detected_pulses /= <<>>

\* the 0-based index j lies in the span of a reported pulse
InPulseSpan(j) ==
    \E q \in 1..Len(Get(results_data).detected_pulses) :
        /\ Get(results_data).detected_pulses[q].start_idx_readings <= j
        /\ j <= Get(results_data).detected_pulses[q].end_idx_readings

\* C14: after a run that completes with pulses and without cancellation the
\* noise-zeroed signal is as long as the readings, equals the readings inside
\* every reported pulse span and is 0 outside all of them.
C14_NoiseZeroedSignal ==
    CompletedWithPulses =>
        /\ Len(plot_data_noise_zero) = Len(Readings)
        /\ \A j \in 0..(Len(Readings) - 1) :
              plot_data_noise_zero[j + 1] =
                  IF InPulseSpan(j) THEN Readings[j + 1] ELSE 0

C14_Witness ==
    /\ CompletedWithPulses
    /\ Len(Ref) = 2
    /\ \E j \in 0..(Len(Readings) - 1) :
          ~InPulseSpan(j) /\ Readings[j + 1] /= 0 /\ plot_data_noise_zero[j + 1] = 0
    /\ \E j \in 0..(Len(Readings) - 1) :
          InPulseSpan(j) /\ plot_data_noise_zero[j + 1] /= 0

\* the assembly loop has built at least one pulse record
RecordsBuilt ==
    pc \in {"assemble", "finish", "done"} /\ detected_pulse_details /= <<>>

\* C15: the q-th pulse record is built from the q-th peak, at offset p: its
\* start index is p, its end index is p + M - 1 and at most N - 1, its times
\* are the time axis at those two indices and its score is the score
\* sequence's value at p.
C15_PulseFields ==
    RecordsBuilt =>
        \A q \in 1..Len(detected_pulse_details) :
            LET r == detected_pulse_details[q]
                p == peaks_indices[q]
            IN  /\ r.start_idx_readings = p
                /\ r.end_idx_readings = p + Len(Ref) - 1
                /\ r.end_idx_readings <= Len(Readings) - 1
                /\ r.start_time = Get(time_readings)[r.start_idx_readings + 1]
                /\ r.end_time = Get(time_readings)[r.end_idx_readings + 1]
                /\ r.similarity_score = similarity_scores[p + 1]

C15_Witness ==
    /\ RecordsBuilt
    /\ pc = "done"
    /\ Len(Ref) = 2
    /\ Get(time_readings) = Stamps(Len(Readings))
    /\ \E q \in 1..Len(detected_pulse_details) :
          /\ detected_pulse_details[q].start_idx_readings = 1
          /\ detected_pulse_details[q].start_time = 15
          /\ detected_pulse_details[q].end_time = 20
          /\ IsOne(detected_pulse_details[q].similarity_score)

\* C16: in every stored result the pulses are in strictly ascending order of
\* start index and their ids are 1, 2, ..., k in that order.
C16_PulseOrderAndIds ==
    results_data /= None =>
        LET pulses == Get(results_data).detected_pulses
        IN  /\ \A q \in 1..Len(pulses) : pulses[q].id = q
            /\ \A q \in 1..(Len(pulses) - 1) :
                  pulses[q].start_idx_readings < pulses[q + 1].start_idx_readings

C16_Witness ==
    /\ results_data /= None
    /\ Len(Get(results_data).detected_pulses) = 2
    /\ Get(results_data).detected_pulses[2].id = 2
    /\ Get(results_data).detected_pulses[1].start_idx_readings
           < Get(results_data).detected_pulses[2].start_idx_readings

\* C17 as stated: when a run has ended, whatever its outcome, results_data is
\* the result this run stored or is absent.
C17_Original == pc = "done" => (results_data = None \/ Did("store"))

\* C17 as amended: results_data changes only when a run stores its own
\* result, which then replaces the earlier one wholesale, or when a run that
\* found no pulses clears it; a run that ends in a validation error, with no
\* method selected or cancelled before plotting leaves the result of an
\* earlier run stored.
C17_ResultChangesOnlyOnStoreOrClear ==
    [][(results_data' /= results_data) =>
          \/ /\ pc = "finish"
             /\ results_data' /= None
             /\ Get(results_data').detected_pulses = detected_pulse_details
             /\ Get(results_data').method = MethodName(method)
             /\ Get(results_data').threshold = threshold
             /\ Get(results_data').total_pulses = Len(peaks_indices)
          \/ /\ pc = "scored"
             /\ results_data' = None
             /\ lbl_status' = StatusNoPulses]_vars

C17_Witness ==
    /\ pc = "done"
    /\ lbl_status \in ValidationErrors \cup {StatusCancelled}
    /\ ~Did("store")
    /\ results_data /= None
    /\ Get(results_data).detected_pulses /= <<>>
    /\ Get(results_data).reference_length /= Len(Ref)

\* C18: every peak that find_peaks returns has a score of at least the
\* threshold, its score is not below the score of either neighbouring offset,
\* and a run of consecutive equal scores holds at most one peak.
C18_PeaksAreTallLocalMaxima ==
    pc = "peaks_returned" =>
        /\ \A a \in 1..Len(peaks_indices) :
              LET p == peaks_indices[a]
              IN  /\ 1 <= p /\ p <= Len(similarity_scores) - 2
                  /\ AtLeast(similarity_scores[p + 1], threshold)
                  /\ ~ScoreLess(similarity_scores[p + 1], similarity_scores[p])
                  /\ ~ScoreLess(similarity_scores[p + 1], similarity_scores[p + 2])
        /\ \A a, b \in 1..Len(peaks_indices) :
              peaks_indices[a] < peaks_indices[b] =>
                  \E j \in peaks_indices[a]..peaks_indices[b] :
                      similarity_scores[j + 1] /= similarity_scores[peaks_indices[a] + 1]

\* one peak on a plateau of two equal scores, and a lower local maximum that
\* the threshold rejects
C18_Witness ==
    /\ pc = "peaks_returned"
    /\ threshold = 100
    /\ peak_distance = 1
    /\ Len(peaks_indices) = 1
    /\ similarity_scores[peaks_indices[1] + 1] = similarity_scores[peaks_indices[1] + 2]
    /\ \E p \in LocalMaxima(similarity_scores) : p \notin SeqRange(peaks_indices)

\* the candidate peaks: the local maxima with a score of at least the threshold
Candidates == {p \in LocalMaxima(similarity_scores) :
                  AtLeast(similarity_scores[p + 1], threshold)}

\* candidates p and q lie closer together than the minimum distance
TooClose(p, q) == p /= q /\ Abs(p - q) < peak_distance

Kept(p) == p \in SeqRange(peaks_indices)

RoundedThreeQuarters ==
    LET q == (template_len * 3) \div 4
        r == (template_len * 3) % 4
    IN  IF r > 2 \/ (r = 2 /\ q % 2 = 1) THEN q + 1 ELSE q

\* C20 as stated: the minimum peak distance of a run is
\* max(1, round(template_len * 0.75)).
C20_Original ==
    pc = "peaks_returned" => peak_distance = Max2(1, RoundedThreeQuarters)

\* C20 as amended: the minimum peak distance of a run is
\* max(1, floor(template_len * 0.75)): it is 1 for template lengths 1 and 2,
\* and otherwise the largest integer d with 4 * d <= 3 * template_len.
C20_DistanceTruncated ==
    pc = "peaks_returned" =>
        /\ peak_distance >= 1
        /\ template_len <= 2 => peak_distance = 1
        /\ template_len >= 2 =>
              /\ 4 * peak_distance <= 3 * template_len
              /\ 3 * template_len < 4 * (peak_distance + 1)

\* a template of two samples: 1.5 is truncated to 1, where rounding gives 2
C20_Witness ==
    /\ pc = "peaks_returned"
    /\ template_len = 2
    /\ peak_distance = 1
    /\ RoundedThreeQuarters = 2

\* the number of samples that the spans of pulses p and q of the stored
\* result share, p before q (0 or less: none)
SharedSamples(p, q) ==
    Get(results_data).detected_pulses[p].end_idx_readings
        - Get(results_data).detected_pulses[q].start_idx_readings + 1

\* C21 as stated: for pulses p before q of one result, p.end_index is below
\* q.start_index.
C21_Original ==
    results_data /= None =>
        \A p, q \in 1..Len(Get(results_data).detected_pulses) :
            p < q => SharedSamples(p, q) <= 0

\* C21 as amended: the starts of two pulses of one result are at least
\* max(2, floor(0.75 * M)) apart, so their spans share at most
\* M - max(2, floor(0.75 * M)) samples: none for M <= 2, but one sample for
\* M = 3 and M = 4, where the spans of two pulses can overlap.
C21_SpansShareFewSamples ==
    results_data /= None =>
        LET pulses == Get(results_data).detected_pulses
            M      == Get(results_data).reference_length
        IN  \A p, q \in 1..Len(pulses) :
                p < q =>
                    /\ pulses[q].start_idx_readings - pulses[p].start_idx_readings
                          >= Max2(2, (3 * M) \div 4)
                    /\ SharedSamples(p, q) <= M - Max2(2, (3 * M) \div 4)
                    /\ M <= 2 => SharedSamples(p, q) <= 0

\* two pulses of a three-sample reference whose spans share a sample
C21_Witness ==
    /\ results_data /= None
    /\ Get(results_data).reference_length = 3
    /\ Len(Get(results_data).detected_pulses) = 2
    /\ SharedSamples(1, 2) = 1

(***************************************************************************)
(* SpecDtwMode: _calculate_dtw_similarity called on short signals and on   *)
(* signals whose length is the limit of line 805 or one more.  trace       *)
(* records, window by window, the library function that measured it.       *)
(***************************************************************************)
FastDtwNotice == "Info: Using FastDTW due to signal size."

InitDtwMode ==
    /\ \E m \in 1..ModeMaxTemplateLen : reference_signal = Some(Step(m))
    /\ \E s \in Signals(ModeMaxSample, ModeMaxShortLen)
                  \cup {Alt(max_sample_size_for_dtw * 10),
                        Alt(max_sample_size_for_dtw * 10 + 1)} :
          /\ Len(s) >= Len(Get(reference_signal))
          /\ readings_signal = Some(s)
    /\ time_readings = None
    /\ method = "dtw"
    /\ dsp_threshold = "0.70"
    /\ pc = "scorer_call"
    /\ FrameInit
    /\ Quiet

DtwModeCall ==
    /\ pc = "scorer_call"
    /\ lbl_status' = IF UseFastDtw(Get(readings_signal), Get(reference_signal))
                     THEN FastDtwNotice ELSE lbl_status
    /\ similarity_scores' =
           calculate_dtw_similarity(Get(readings_signal), Get(reference_signal))
    /\ trace' = [w \in 1..Len(similarity_scores') |->
                    DtwAlgorithm(Get(readings_signal), Get(reference_signal))]
    /\ pc' = "scorer_returned"
    /\ UNCHANGED <<settings, clock, plot_data_noise_zero, dsp_threshold,
                   results_data, canceled, progress, threshold_text, threshold,
                   template_len, peak_distance, peaks_indices, i,
                   detected_pulse_details, cancel_point>>

SpecDtwMode == InitDtwMode /\ [][DtwModeCall]_vars

\* the lengths for which C22 names exact DTW
WithinExactLimits ==
    /\ Len(Ref) <= max_sample_size_for_dtw
    /\ Len(Readings) <= 10 * max_sample_size_for_dtw

WindowDistance(w) ==
    LET window == Window(Readings, w - 1, Len(Ref))
    IN  IF DtwAlgorithm(Readings, Ref) = "fastdtw"
        THEN FastDtwDistance(Ref, window)
        ELSE DtwDistance(Ref, window)

\* H squared: M times the square of the largest |sample| of the template,
\* and M squared when the template is all zeros
HSquared ==
    IF \A j \in 1..Len(Ref) : Ref[j] = 0
    THEN Len(Ref) * Len(Ref)
    ELSE Len(Ref) * MaxAbs(Ref) * MaxAbs(Ref)

DtwCallReturned ==
    /\ pc = "scorer_returned"
    /\ method = "dtw"
    /\ similarity_scores /= <<>>

\* C23: the DTW score of a window with distance d is
\* max(0, 1 - min(d / H, 1)), a score 1 - sqrt(n / den) with
\* n / den = min(d^2, H^2) / H^2; it is 1 when d = 0 and 0 when d >= H.
C23_DtwScoreFormula ==
    DtwCallReturned =>
        \A w \in 1..Len(similarity_scores) :
            LET d  == WindowDistance(w)
                s  == similarity_scores[w]
                c2 == Min2(d * d, HSquared)
            IN  /\ s.kind = "omsq"
                /\ s.n * HSquared = c2 * s.d
                /\ 0 <= s.n /\ s.n <= s.d
                /\ d = 0 => IsOne(s)
                /\ d * d >= HSquared => IsZero(s)
                /\ (0 < d /\ d * d < HSquared) => (~IsOne(s) /\ ~IsZero(s))

\* one call with a window at distance 0, one at a distance of H or more and
\* one in between
C23_Witness ==
    /\ DtwCallReturned
    /\ \E w \in 1..Len(similarity_scores) : WindowDistance(w) = 0
    /\ \E w \in 1..Len(similarity_scores) :
          WindowDistance(w) * WindowDistance(w) > HSquared
    /\ \E w \in 1..Len(similarity_scores) :
          /\ 0 < WindowDistance(w)
          /\ WindowDistance(w) * WindowDistance(w) < HSquared
          /\ ~IsOne(similarity_scores[w]) /\ ~IsZero(similarity_scores[w])

(***************************************************************************)
(* SpecDtw: runs of the analysis with DTW selected on arbitrary signals,   *)
(* in which dtw() may raise for any window and Cancel may be clicked while *)
(* the scorer runs.                                                        *)
(***************************************************************************)
InitDtw ==
    /\ \E t \in Signals(DtwMaxSample, DtwMaxRefLen) \ {<<>>} :
          reference_signal = Some(t)
    /\ \E s \in Signals(DtwMaxSample, DtwMaxReadLen) :
          /\ Len(s) >= Len(Get(reference_signal))
          /\ readings_signal = Some(s)
    /\ time_readings = None
    /\ method = "dtw"
    /\ dsp_threshold = "0.70"
    /\ pc = "idle"
    /\ FrameInit
    /\ Quiet

ScorerClicks == {"none", "line871", "line821"}

NextDtw ==
    \/ RunBeginWith(NoClick)
    \/ DispatchWith(ScorerClicks)
    \/ DtwStepFailing(ScorerClicks, BOOLEAN)
    \/ AfterScoringWith(NoClick)
    \/ AssembleStepWith(NoClick)
    \/ Finish

SpecDtw == InitDtw /\ [][NextDtw]_vars

\* the step evaluates window i: the scorer is in its loop and goes on to
\* window i + 1
EvaluatesWindow == pc = "dtw_loop" /\ i' = i + 1

\* the scorer has returned a score sequence that is not the empty one of a
\* cancelled call
DtwScored ==
    /\ method = "dtw"
    /\ pc \in {"scored", "assemble", "finish", "done"}
    /\ Did("score")
    /\ similarity_scores /= <<>>

\* C24: a window whose DTW computation raises gets the score 0, the step
\* leaves the scores of all other windows as they are and the loop goes on;
\* a window that does not raise gets its ordinary score; the sequence
\* returned has N - M + 1 entries.
C24_FailedWindowScoresZero ==
    /\ [][EvaluatesWindow =>
            /\ Len(similarity_scores') = Len(Readings) - Len(Ref) + 1
            /\ \A w \in 1..Len(similarity_scores) :
                  w /= i + 1 => similarity_scores'[w] = similarity_scores[w]
            /\ IF trace' /= trace
               THEN IsZero(similarity_scores'[i + 1])
               ELSE similarity_scores'[i + 1] = DtwWindowScore(Readings, Ref, i)
            /\ pc' = IF i + 1 < Len(similarity_scores) THEN "dtw_loop" ELSE "scored"]_vars
    /\ [](DtwScored =>
            /\ Len(similarity_scores) = Len(Readings) - Len(Ref) + 1
            /\ ~Did("window_failed") =>
                  similarity_scores = calculate_dtw_similarity(Readings, Ref))

\* a run that went on to its end although a window that would have scored
\* 1.0 failed, and that scored another window 1.0
C24_Witness ==
    /\ DtwScored
    /\ pc = "done"
    /\ lbl_status = StatusComplete
    /\ Did("window_failed")
    /\ \E w \in 1..Len(similarity_scores) :
          /\ IsZero(similarity_scores[w])
          /\ IsOne(DtwWindowScore(Readings, Ref, w - 1))
    /\ \E w \in 1..Len(similarity_scores) : IsOne(similarity_scores[w])

(***************************************************************************)
(* SpecDtwLong: the DTW scorer, called by run_analysis, on signals long    *)
(* enough for the dialog to be polled before every second window only.     *)
(***************************************************************************)
InitDtwLong ==
    /\ \E m \in 1..LongMaxTemplateLen :
       \E nw \in LongMinWindows..LongMaxWindows :
          /\ reference_signal = Some(Step(m))
          /\ readings_signal = Some(Alt(nw + m - 1))
    /\ time_readings = None
    /\ method = "dtw"
    /\ dsp_threshold = "0.70"
    /\ pc = "idle"
    /\ FrameInit
    /\ Quiet

NextDtwLong ==
    \/ RunBeginWith(NoClick)
    \/ DispatchWith(ScorerClicks)
    \/ DtwStepWith(ScorerClicks)

SpecDtwLong == InitDtwLong /\ [][NextDtwLong]_vars

\* window i is one before which C25 has the cancel flag polled
PollDue == i % Max2(1, (Len(Readings) - Len(Ref) + 1) \div 100) = 0

\* the DTW scorer has returned to run_analysis
DtwScorerReturned == method = "dtw" /\ pc = "scored" /\ Did("score")

\* C25: in the loop of the DTW scorer a set cancel flag is seen before
\* window i exactly when i mod max(1, num_windows div 100) = 0; the scorer
\* then returns the empty sequence without evaluating window i or a later
\* one, and otherwise it evaluates window i.  A call that was never
\* cancelled returns N - M + 1 >= 1 scores, a cancelled one none.
C25_CancelPolledEveryStride ==
    /\ [][pc = "dtw_loop" =>
            IF PollDue /\ canceled'
            THEN /\ similarity_scores' = <<>>
                 /\ pc' = "scored"
                 /\ i' = i
            ELSE /\ ~canceled'
                 /\ i' = i + 1
                 /\ Len(similarity_scores') = Len(Readings) - Len(Ref) + 1]_vars
    /\ [](DtwScorerReturned =>
            /\ cancel_point = "none" =>
                  /\ Len(similarity_scores) = Len(Readings) - Len(Ref) + 1
                  /\ Len(similarity_scores) >= 1
            /\ cancel_point /= "none" => similarity_scores = <<>>)

\* Cancel clicked at the poll before window 2 of 200, windows 0 and 1
\* evaluated, window 1 without a poll
C25_Witness ==
    /\ DtwScorerReturned
    /\ Len(Readings) - Len(Ref) + 1 = 200
    /\ cancel_point = "line821"
    /\ i = 2
    /\ similarity_scores = <<>>

\* the NCC scorer has returned for a non-flat template that fits the signal
NccCallReturned ==
    /\ pc = "scorer_returned"
    /\ method = "ncc"
    /\ Len(Ref) >= 1
    /\ Len(Ref) <= Len(Readings)
    /\ ~IsFlat(Ref)

\* C26: under NCC with a non-flat template the score sequence has an entry
\* for every offset, the entry of an offset whose window is flat is 0, and
\* the entry of every other offset is the score of the window at that very
\* offset.
C26_FlatWindowScoresZero ==
    NccCallReturned =>
        /\ Len(similarity_scores) = Len(Readings) - Len(Ref) + 1
        /\ \A w \in 1..Len(similarity_scores) :
              LET window == Window(Readings, w - 1, Len(Ref))
              IN  IF IsFlat(window)
                  THEN IsZero(similarity_scores[w])
                  ELSE similarity_scores[w] = Clip(NccWindowScore(window, Ref))

\* a flat window between two windows that score 1.0 and -1.0
C26_Witness ==
    /\ NccCallReturned
    /\ Len(similarity_scores) = 3
    /\ IsFlat(Window(Readings, 1, Len(Ref)))
    /\ IsZero(similarity_scores[2])
    /\ IsOne(similarity_scores[1])
    /\ similarity_scores[3] = Frac("sq", -1, 1)

\* C27: from one report to the next within a run the progress value never
\* decreases, and it always lies in 0..100.
C27_ProgressNeverDecreases ==
    [][(pc /= "done" /\ pc' /= "idle") =>
          /\ progress' \in 0..100
          /\ progress' >= progress]_vars

\* C28: every peak offset p of a run lies in 1..N - M - 1, so its span
\* p..p + M - 1 lies inside the readings and the skip of line 909 is never
\* taken (the assembly loop has appended one record per peak it has visited);
\* no peak being offset 0, the test of line 885 finds "no pulses" exactly
\* when there is no peak.
C28_PeaksAreInteriorOffsets ==
    PeaksExtracted =>
        /\ \A a \in 1..Len(peaks_indices) :
              /\ 1 <= peaks_indices[a]
              /\ peaks_indices[a] <= Len(Readings) - Len(Ref) - 1
              /\ peaks_indices[a] + template_len <= Len(Readings)
        /\ AnyNonZero(peaks_indices) <=> peaks_indices /= <<>>
        /\ Did("clear") => peaks_indices = <<>>
        /\ (pc \in {"assemble", "finish"} \/ Did("store")) => peaks_indices /= <<>>
        /\ pc \in {"assemble", "finish"} => Len(detected_pulse_details) = i
        /\ \A q \in 1..Len(detected_pulse_details) :
              /\ detected_pulse_details[q].start_idx_readings >= 1
              /\ detected_pulse_details[q].end_idx_readings <= Len(Readings) - 2

\* a run with a pulse at the first interior offset and one at the last
C28_Witness ==
    /\ PeaksExtracted
    /\ pc = "done"
    /\ Len(detected_pulse_details) = 2
    /\ detected_pulse_details[1].start_idx_readings = 1
    /\ detected_pulse_details[2].end_idx_readings = Len(Readings) - 2

\* C29: in every stored result total_pulses is the number of records in
\* detected_pulses (the status of line 920 reports len(peaks_indices), the
\* value stored as total_pulses).
C29_TotalMatchesRecords ==
    results_data /= None =>
        Get(results_data).total_pulses = Len(Get(results_data).detected_pulses)

=============================================================================
